---- MODULE Spec2Model ----
(***************************************************************************)
(* Model of app/ask_model.py: the generation gateway generate_response,    *)
(* its two HTTP routes (/generate, /ask) and its command-line entry point. *)
(*                                                                         *)
(* One process of the program is modelled.  It is either the HTTP server   *)
(* (one event loop: the route handlers are coroutines that call the        *)
(* blocking generate_response without awaiting, so a handler runs from its *)
(* first line to its return before the loop runs anything else; the        *)
(* middleware log_requests awaits the handler, so its start and its        *)
(* resumption are steps of their own, and those of several requests        *)
(* interleave with the handlers of others) or one command-line run (main   *)
(* serves one request and the process ends).                               *)
(* The three backend calls (list, pull, generate) are the points where the *)
(* process waits for the backend; each has an action for its return.       *)
(* Text is modelled by strings, character for character.                   *)
(***************************************************************************)
EXTENDS Integers, Sequences, FiniteSets, TLC

VARIABLES
    mode,       \* "server" (uvicorn runs app) or "cli" (python -m app.ask_model)
    pending,    \* HTTP requests accepted by the socket, not yet taken up by the loop
    started,    \* requests whose log_requests awaits call_next, handler not yet entered
    outbox,     \* responses the handlers returned, log_requests not yet resumed (in order)
    pc,         \* position of the process inside the request it is serving
    front,      \* "/generate", "/ask" or "cli": the entry the request came through
    reqModel,   \* the model argument handed to generate_response
    prompt,     \* the prompt argument handed to generate_response
    jsonFlag,   \* args.json of the command line
    model,      \* the local variable model of generate_response
    calls,      \* backend calls issued for this request, in order
    answers,    \* backend replies received for this request, in order
    DEFAULT_MODEL, \* the module constant DEFAULT_MODEL, read from the environment at import
    outcome,    \* how generate_response ended: returned text, or a raised exception
    reply       \* what the handler returned (HTTP status and body), or what main printed

vars == <<mode, pending, started, outbox, pc, front, reqModel, prompt, jsonFlag, model,
          calls, answers, DEFAULT_MODEL, outcome, reply>>

----------------------------------------------------------------------------
(* Bounds and input sets *)

MaxInFlight == 2

\* the literal os.getenv falls back to when DEFAULT_MODEL is not in the environment
BuiltinDefault == "llama3.2:1b"

\* the environment variable DEFAULT_MODEL: unset, set to a model name, set but empty
Environments ==
    {[set |-> FALSE, value |-> ""],
     [set |-> TRUE, value |-> "mistral"],
     [set |-> TRUE, value |-> ""]}

\* os.getenv(name, default) on one variable of the environment
GetEnv(env, default) == IF env.set THEN env.value ELSE default

LEGACY_MODEL == "local-model"

GhostModel == "ghost-model"

Models == {"", LEGACY_MODEL, BuiltinDefault, "mistral", GhostModel}

Prompts == {"Hi", ""}

Routes == {"/generate", "/ask"}

Installable == {BuiltinDefault, "mistral", GhostModel}

GenTexts == {"", "Hello!", "  ok \n", "Error: said the model", "a\tb \"q\" \\ \r\f"}

----------------------------------------------------------------------------
(* Python exceptions *)

NoExc == [type |-> "None", msg |-> ""]

ConnErr == [type |-> "ConnectionError", msg |-> "connection refused"]

RespErr == [type |-> "ResponseError", msg |-> "not found"]

BareErr == [type |-> "Exception", msg |-> ""]

KeyError(k) == [type |-> "KeyError", msg |-> k]

\* str(e): a KeyError prints the repr of its key, other exceptions their message
PyStr(e) == IF e.type = "KeyError" THEN "'" \o e.msg \o "'" ELSE e.msg

----------------------------------------------------------------------------
(* Backend replies *)

\* ollama_client.list(): raises, or returns a mapping that may lack 'models',
\* whose entries may lack 'name'
ListReplies ==
    {[raised |-> ConnErr, hasModels |-> FALSE, hasNames |-> FALSE, names |-> {}]}
    \cup [raised : {NoExc}, hasModels : {FALSE}, hasNames : {FALSE}, names : {{}}]
    \cup [raised : {NoExc}, hasModels : {TRUE}, hasNames : BOOLEAN,
          names : SUBSET Installable]

\* ollama_client.pull(model): raises or returns
PullReplies == {[raised |-> e] : e \in {NoExc, RespErr, ConnErr}}

\* ollama_client.generate(...): raises, or returns a mapping that may lack 'response'
GenReplies ==
    {[raised |-> e, hasResponse |-> FALSE, response |-> ""] : e \in {RespErr, BareErr}}
    \cup {[raised |-> NoExc, hasResponse |-> FALSE, response |-> ""]}
    \cup {[raised |-> NoExc, hasResponse |-> TRUE, response |-> t] : t \in GenTexts}

----------------------------------------------------------------------------
(* String helpers *)

StartsWith(s, p) == Len(s) >= Len(p) /\ SubSeq(s, 1, Len(p)) = p

Contains(s, t) ==
    \E i \in 1..(Len(s) - Len(t) + 1) : SubSeq(s, i, i + Len(t) - 1) = t

----------------------------------------------------------------------------
(* generate_response, piece by piece *)

\* a variant that forgets the legacy placeholder
NormalizeEmptyOnly(m) == IF m = "" THEN DEFAULT_MODEL ELSE m

\* if not model or model == "local-model": model = DEFAULT_MODEL
Normalize(m) == IF m = "" \/ m = LEGACY_MODEL THEN DEFAULT_MODEL ELSE m

\* [m['name'] for m in ollama_client.list()['models']]
ListNames(r) ==
    IF r.raised # NoExc THEN [exc |-> r.raised, names |-> {}]
    ELSE IF ~r.hasModels THEN [exc |-> KeyError("models"), names |-> {}]
    ELSE IF ~r.hasNames /\ r.names # {} THEN [exc |-> KeyError("name"), names |-> {}]
    ELSE [exc |-> NoExc, names |-> r.names]

\* a variant of the inner handler that re-raises to the outer handler
InnerExceptPropagates(m, e) == [model |-> m, exc |-> e, next |-> "raise"]

\* a variant of the inner handler that logs but keeps the requested model
InnerExceptKeeps(m, e) == [model |-> m, exc |-> NoExc, next |-> "generate"]

\* the inner handler: except Exception as e: ...; model = DEFAULT_MODEL,
\* after which control falls through to the generate call
InnerExcept(m, e) == [model |-> DEFAULT_MODEL, exc |-> NoExc, next |-> "generate"]

\* the availability check: list, then pull when the model is not listed
CheckStep(m, r) ==
    LET l == ListNames(r) IN
    IF l.exc # NoExc THEN InnerExcept(m, l.exc)
    ELSE IF m \notin l.names THEN [model |-> m, exc |-> NoExc, next |-> "pull"]
    ELSE [model |-> m, exc |-> NoExc, next |-> "generate"]

\* a variant that falls back to the default model after every pull
PullStepDefault(m, r) == [model |-> DEFAULT_MODEL, exc |-> NoExc, next |-> "generate"]

\* a variant that pulls again after a failed pull
PullStepRetry(m, r) ==
    IF r.raised # NoExc THEN [model |-> m, exc |-> NoExc, next |-> "pull"]
    ELSE [model |-> m, exc |-> NoExc, next |-> "generate"]

\* ollama_client.pull(model) inside the inner try
PullStep(m, r) ==
    IF r.raised # NoExc THEN InnerExcept(m, r.raised)
    ELSE [model |-> m, exc |-> NoExc, next |-> "generate"]

\* a variant of the fallback text that is only str(e)
ErrorTextBare(m, e) == PyStr(e)

\* f"Error: Unable to generate response using model '{model}'. {str(e)}"
ErrorText(m, e) ==
    "Error: Unable to generate response using model '" \o m \o "'. " \o PyStr(e)

\* a variant of the outer handler that lets a KeyError through
OuterExceptNarrow(m, e) ==
    IF e.type = "KeyError" THEN [returned |-> FALSE, text |-> "", exc |-> e]
    ELSE [returned |-> TRUE, text |-> ErrorText(m, e), exc |-> NoExc]

\* the outer handler: except Exception as e: ...; return the fallback text
OuterExcept(m, e) == [returned |-> TRUE, text |-> ErrorText(m, e), exc |-> NoExc]

IsSpace(c) == c \in {" ", "\n", "\t", "\r", "\f"}

RECURSIVE LStrip(_)
LStrip(t) ==
    IF t # "" /\ IsSpace(SubSeq(t, 1, 1)) THEN LStrip(SubSeq(t, 2, Len(t))) ELSE t

RECURSIVE RStrip(_)
RStrip(t) ==
    IF t # "" /\ IsSpace(SubSeq(t, Len(t), Len(t)))
    THEN RStrip(SubSeq(t, 1, Len(t) - 1)) ELSE t

\* a variant that returns response['response'].strip()
ExtractResponseStripped(r) == LStrip(RStrip(r.response))

\* return response['response']
ExtractResponse(r) == r.response

\* the generate call and what follows it
GenStep(m, r) ==
    IF r.raised # NoExc THEN OuterExcept(m, r.raised)
    ELSE IF ~r.hasResponse THEN OuterExcept(m, KeyError("response"))
    ELSE [returned |-> TRUE, text |-> ExtractResponse(r), exc |-> NoExc]

NoOutcome == [returned |-> FALSE, text |-> "", exc |-> NoExc]

----------------------------------------------------------------------------
(* Front ends *)

\* a variant of the route handler that turns a fallback text into a 500
HandlerErrorsAs500(out) ==
    IF out.exc # NoExc \/ StartsWith(out.text, "Error:")
    THEN [status |-> 500, key |-> "detail",
          text |-> IF out.exc # NoExc THEN PyStr(out.exc) ELSE out.text]
    ELSE [status |-> 200, key |-> "response", text |-> out.text]

\* generate / ask: HTTPException(500) when generate_response raises, else the
\* GenerateResponse envelope
Handler(out) ==
    IF out.exc # NoExc
    THEN [status |-> 500, key |-> "detail", text |-> PyStr(out.exc)]
    ELSE [status |-> 200, key |-> "response", text |-> out.text]

\* _parse_cli: --model defaults to "local-model"
ParseCli(argv) ==
    [prompt |-> argv.prompt,
     model  |-> IF argv.hasModel THEN argv.model ELSE "local-model",
     json   |-> argv.json]

RECURSIVE JsonEscape(_)
\* json.dumps(..., ensure_ascii=False) on the characters of a string: the
\* quote, the backslash and the control characters are escaped, everything
\* else is kept.  Of the control characters, a string of this module can hold
\* newline, tab, carriage return and form feed; the others (backspace, and
\* the rest below 0x20, which json.dumps writes as \b and \u00XX) cannot be
\* written in a string here and so occur in no text of the model.
JsonEscape(s) ==
    IF s = "" THEN ""
    ELSE LET c == SubSeq(s, 1, 1)
             e == IF c = "\"" THEN "\\\""
                  ELSE IF c = "\\" THEN "\\\\"
                  ELSE IF c = "\n" THEN "\\n"
                  ELSE IF c = "\t" THEN "\\t"
                  ELSE IF c = "\r" THEN "\\r"
                  ELSE IF c = "\f" THEN "\\f"
                  ELSE c
         IN e \o JsonEscape(SubSeq(s, 2, Len(s)))

\* main: print(json.dumps({"response": answer}, ...)) or print(answer);
\* an exception leaving generate_response would end the run with a traceback
CliOutput(out, json) ==
    IF out.exc # NoExc
    THEN [status |-> 1, key |-> "stderr", text |-> PyStr(out.exc)]
    ELSE [status |-> 0, key |-> "stdout",
          text |-> IF json THEN "{\"response\": \"" \o JsonEscape(out.text) \o "\"}\n"
                   ELSE out.text \o "\n"]

NoReply == [status |-> 0, key |-> "", text |-> ""]

Argvs == [prompt : Prompts, hasModel : {TRUE}, model : Models, json : BOOLEAN]
         \cup [prompt : Prompts, hasModel : {FALSE}, model : {""}, json : BOOLEAN]

Requests == [route : Routes, model : Models, prompt : Prompts]

----------------------------------------------------------------------------
(* State machine *)

Call(op, m, p) == [op |-> op, model |-> m, prompt |-> p]

Init ==
    /\ mode \in {"server", "cli"}
    /\ \E env \in Environments : DEFAULT_MODEL = GetEnv(env, BuiltinDefault)
    /\ pending = 0
    /\ started = 0
    /\ outbox = <<>>
    /\ pc = "idle"
    /\ front = ""
    /\ reqModel = ""
    /\ prompt = ""
    /\ jsonFlag = FALSE
    /\ model = ""
    /\ calls = <<>>
    /\ answers = <<>>
    /\ outcome = NoOutcome
    /\ reply = NoReply

\* a handler is between its entry and its return: the event loop is blocked
InHandler == pc \in {"listing", "pulling", "generating"}

\* requests that have reached the process and whose response has not left it
InFlight == pending + started + (IF InHandler THEN 1 ELSE 0) + Len(outbox)

\* entry of generate_response up to the list call
Enter(m, p) ==
    /\ reqModel' = m
    /\ prompt' = p
    /\ model' = Normalize(m)
    /\ calls' = <<Call("list", "", "")>>
    /\ answers' = <<>>
    /\ outcome' = NoOutcome
    /\ reply' = NoReply
    /\ pc' = "listing"

\* generate_response ends with out and, in the same synchronous stretch, its
\* caller goes on: the route handler returns its response (or raises
\* HTTPException) to the awaiting log_requests; main goes on to print.  Of a
\* waiting response the middleware reads the status code only; the body
\* travels with it untouched.
Return(out) ==
    /\ outcome' = out
    /\ pc' = "returned"
    /\ IF mode = "server"
       THEN /\ reply' = Handler(out)
            /\ outbox' = Append(outbox, [status |-> Handler(out).status,
                                        key |-> Handler(out).key])
       ELSE UNCHANGED <<reply, outbox>>

\* a client's POST reaches the server's socket
Arrive ==
    /\ mode = "server"
    /\ InFlight < MaxInFlight
    /\ pending' = pending + 1
    /\ UNCHANGED <<DEFAULT_MODEL, mode, started, outbox, pc, front, reqModel, prompt,
                   jsonFlag, model, calls, answers, outcome, reply>>

\* log_requests starts for a waiting request: it takes the time and awaits
\* call_next.  It is a step of the event loop, so no handler is running.
MiddlewareStart ==
    /\ mode = "server"
    /\ ~InHandler
    /\ pending > 0
    /\ pending' = pending - 1
    /\ started' = started + 1
    /\ UNCHANGED <<DEFAULT_MODEL, mode, outbox, pc, front, reqModel, prompt,
                   jsonFlag, model, calls, answers, outcome, reply>>

\* the event loop enters the route handler of a request whose middleware
\* awaits it: it can do so only when no handler is running, because the
\* handler never yields inside generate_response
Dispatch(req) ==
    /\ mode = "server"
    /\ started > 0
    /\ ~InHandler
    /\ started' = started - 1
    /\ front' = req.route
    /\ jsonFlag' = FALSE
    /\ Enter(req.model, req.prompt)
    /\ UNCHANGED <<DEFAULT_MODEL, mode, pending, outbox>>

\* main(argv): parse the arguments and call generate_response
CliMain(argv) ==
    /\ mode = "cli"
    /\ pc = "idle"
    /\ LET args == ParseCli(argv) IN
          /\ front' = "cli"
          /\ jsonFlag' = args.json
          /\ Enter(args.model, args.prompt)
    /\ UNCHANGED <<DEFAULT_MODEL, mode, pending, started, outbox>>

\* what generate_response does once the check phase has decided step s
Proceed(s) ==
    /\ model' = s.model
    /\ IF s.next = "pull" THEN
            /\ calls' = Append(calls, Call("pull", s.model, ""))
            /\ pc' = "pulling"
            /\ UNCHANGED <<outcome, reply, outbox>>
       ELSE IF s.next = "generate" THEN
            /\ calls' = Append(calls, Call("generate", s.model, prompt))
            /\ pc' = "generating"
            /\ UNCHANGED <<outcome, reply, outbox>>
       ELSE
            /\ Return(OuterExcept(s.model, s.exc))
            /\ UNCHANGED calls

ListReturn(r) ==
    /\ pc = "listing"
    /\ answers' = Append(answers, r)
    /\ Proceed(CheckStep(model, r))
    /\ UNCHANGED <<DEFAULT_MODEL, mode, pending, started, front, reqModel, prompt,
                   jsonFlag>>

PullReturn(r) ==
    /\ pc = "pulling"
    /\ answers' = Append(answers, r)
    /\ Proceed(PullStep(model, r))
    /\ UNCHANGED <<DEFAULT_MODEL, mode, pending, started, front, reqModel, prompt,
                   jsonFlag>>

GenerateReturn(r) ==
    /\ pc = "generating"
    /\ answers' = Append(answers, r)
    /\ Return(GenStep(model, r))
    /\ UNCHANGED <<DEFAULT_MODEL, mode, pending, started, front, reqModel, prompt,
                   jsonFlag, model, calls>>

\* log_requests resumes after await call_next for the response that has waited
\* longest: it logs method, path, status and latency and returns the response,
\* which leaves the process.  A step of the event loop: no handler is running.
MiddlewareResume ==
    /\ mode = "server"
    /\ ~InHandler
    /\ outbox # <<>>
    /\ outbox' = Tail(outbox)
    /\ UNCHANGED <<DEFAULT_MODEL, mode, pending, started, pc, front, reqModel, prompt,
                   jsonFlag, model, calls, answers, outcome, reply>>

\* main prints the answer and the process ends
CliPrint ==
    /\ mode = "cli"
    /\ pc = "returned"
    /\ reply' = CliOutput(outcome, jsonFlag)
    /\ pc' = "done"
    /\ UNCHANGED <<DEFAULT_MODEL, mode, pending, started, outbox, front, reqModel,
                   prompt, jsonFlag, model, calls, answers, outcome>>

Next ==
    \/ Arrive
    \/ MiddlewareStart
    \/ \E req \in Requests : Dispatch(req)
    \/ \E argv \in Argvs : CliMain(argv)
    \/ \E r \in ListReplies : ListReturn(r)
    \/ \E r \in PullReplies : PullReturn(r)
    \/ \E r \in GenReplies : GenerateReturn(r)
    \/ MiddlewareResume
    \/ CliPrint

Spec == Init /\ [][Next]_vars

----------------------------------------------------------------------------
(* Vocabulary of the properties, read off the call log and the replies *)

Finished == pc \in {"returned", "done"}

CallsOf(op) == {i \in DOMAIN calls : calls[i].op = op}

Answered(i) == i <= Len(answers)

\* a list reply from which the names cannot be read: the call raised, the
\* mapping has no 'models', or an entry has no 'name'
ListBroken(r) ==
    r.raised # NoExc \/ ~r.hasModels \/ (~r.hasNames /\ r.names # {})

ListFailed == Answered(1) /\ ListBroken(answers[1])

ListSucceeded == Answered(1) /\ ~ListBroken(answers[1])

PullFailed ==
    \E i \in CallsOf("pull") : Answered(i) /\ answers[i].raised # NoExc

PullSucceeded ==
    \E i \in CallsOf("pull") : Answered(i) /\ answers[i].raised = NoExc

GenBroken(r) == r.raised # NoExc \/ ~r.hasResponse

GenFailed ==
    \E i \in CallsOf("generate") : Answered(i) /\ GenBroken(answers[i])

GenSucceeded ==
    \E i \in CallsOf("generate") : Answered(i) /\ ~GenBroken(answers[i])

GenReply == answers[CHOOSE i \in CallsOf("generate") : Answered(i)]

\* str(e) of the failure of a generate call
GenDetail(r) == IF r.raised # NoExc THEN r.raised.msg ELSE "'response'"

\* the model the request resolves to before any backend call
Resolved == IF reqModel \in {"", "local-model"} THEN DEFAULT_MODEL ELSE reqModel

ExpectedError(m, d) ==
    "Error: Unable to generate response using model '" \o m \o "'. " \o d

Details ==
    {"", "not found", "connection refused", "'response'", "'models'", "'name'"}

----------------------------------------------------------------------------
(* C1 *)

\* C1 as claimed: whenever the pull failed, the returned text begins with
\* "Error:" and contains the requested model name.
C1_AsClaimed ==
    (Finished /\ PullFailed) =>
        /\ StartsWith(outcome.text, "Error:")
        /\ Contains(outcome.text, reqModel)

\* C1, amended: whenever the pull failed, the inner handler has absorbed the
\* failure: the model becomes the default model, generate is called with the
\* default model and the request's prompt, and the returned text is the
\* generated text when that call succeeds; it is the "Error:" text only when that
\* call fails too, and then it names the default model and carries the detail of
\* the generation failure.
C1_PullFailureFallsBack ==
    PullFailed =>
        /\ model = DEFAULT_MODEL
        /\ CallsOf("generate") # {}
        /\ \A i \in CallsOf("generate") :
              calls[i].model = DEFAULT_MODEL /\ calls[i].prompt = prompt
        /\ Finished =>
              /\ outcome.returned
              /\ GenSucceeded => outcome.text = GenReply.response
              /\ GenFailed =>
                    outcome.text = ExpectedError(DEFAULT_MODEL, GenDetail(GenReply))

C1_Witness ==
    /\ Finished
    /\ reqModel = "ghost-model"
    /\ PullFailed
    /\ GenFailed
    /\ DEFAULT_MODEL = "mistral"
    /\ outcome.text =
         "Error: Unable to generate response using model 'mistral'. not found"

----------------------------------------------------------------------------
(* C2 *)

\* C2: generate_response never raises: whatever list, pull and generate do
\* (succeed, raise, or answer with a malformed mapping), the call ends by
\* returning a string, which is the generated text or an error message
\* "Error: Unable to generate response using model '<model>'. <detail>".
C2_NeverRaises ==
    /\ outcome.exc = NoExc
    /\ Finished =>
          /\ outcome.returned
          /\ \/ GenSucceeded /\ outcome.text = GenReply.response
             \/ \E m \in Models, d \in Details : outcome.text = ExpectedError(m, d)

C2_Witness ==
    /\ Finished
    /\ ListFailed
    /\ GenFailed
    /\ GenReply.raised = NoExc
    /\ outcome.returned
    /\ outcome.text =
         "Error: Unable to generate response using model 'llama3.2:1b'. 'response'"

----------------------------------------------------------------------------
(* C3 *)

\* C3: when the listing call fails, pull is never called in that request, the
\* model handed to generate is the default model whatever was requested, and
\* the listing failure alone produces no error text: if generate then succeeds
\* the generated text is returned.
C3_ListFailureUsesDefault ==
    ListFailed =>
        /\ CallsOf("pull") = {}
        /\ CallsOf("generate") # {}
        /\ \A i \in CallsOf("generate") : calls[i].model = DEFAULT_MODEL
        /\ (Finished /\ GenSucceeded) => outcome.text = GenReply.response
        /\ (Finished /\ StartsWith(outcome.text, "Error: Unable")) => GenFailed

C3_Witness ==
    /\ Finished
    /\ ListFailed
    /\ reqModel = "ghost-model"
    /\ GenSucceeded
    /\ outcome.text = "Hello!"

----------------------------------------------------------------------------
(* C4 *)

\* C4: for a request whose model is empty or the legacy placeholder
\* "local-model" (which is what the command line passes when --model is not
\* given), the model used for the membership check, for any pull and for
\* generate is the default model, under every outcome of list and pull.
C4_PlaceholderResolvesToDefault ==
    /\ ParseCli([prompt |-> "Hi", hasModel |-> FALSE, model |-> "",
                 json |-> FALSE]).model = "local-model"
    /\ (pc # "idle" /\ reqModel \in {"", "local-model"}) =>
          /\ model = DEFAULT_MODEL
          /\ \A i \in CallsOf("pull") \cup CallsOf("generate") :
                calls[i].model = DEFAULT_MODEL
          /\ ListSucceeded =>
                (CallsOf("pull") # {} <=> DEFAULT_MODEL \notin answers[1].names)

C4_Witness ==
    /\ pc = "done"
    /\ front = "cli"
    /\ reqModel = "local-model"
    /\ DEFAULT_MODEL = "mistral"
    /\ calls[2] = Call("pull", "mistral", "")
    /\ PullFailed
    /\ GenSucceeded

----------------------------------------------------------------------------
(* C5 *)

\* C5: when generation succeeds, the returned string is exactly the backend's
\* generated text, character for character.
C5_Verbatim ==
    (Finished /\ GenSucceeded) =>
        /\ outcome.returned
        /\ outcome.text = GenReply.response
        /\ Len(outcome.text) = Len(GenReply.response)

C5_Witness ==
    /\ Finished
    /\ GenSucceeded
    /\ GenReply.response = "  ok \n"
    /\ outcome.text = "  ok \n"

----------------------------------------------------------------------------
(* C6 *)

\* C6 as claimed: the returned string is never empty, and is generated text or
\* a message beginning with "Error:".
C6_AsClaimed ==
    Finished =>
        /\ outcome.text # ""
        /\ \/ GenSucceeded /\ outcome.text = GenReply.response
           \/ StartsWith(outcome.text, "Error:")

\* C6, amended: the returned string is the generated text or a non-empty
\* message beginning with "Error:"; it is empty exactly when generation
\* succeeded and the backend's generated text is itself empty.
C6_EmptyOnlyIfGeneratedEmpty ==
    Finished =>
        /\ \/ GenSucceeded /\ outcome.text = GenReply.response
           \/ ~GenSucceeded /\ StartsWith(outcome.text, "Error:")
                            /\ outcome.text # ""
        /\ outcome.text = "" <=> (GenSucceeded /\ GenReply.response = "")

C6_Witness ==
    /\ Finished
    /\ outcome.returned
    /\ GenSucceeded
    /\ GenReply.response = ""
    /\ outcome.text = ""

----------------------------------------------------------------------------
(* C7 *)

\* C7: when the resolved model is absent from the installed list and the pull
\* of it succeeds, generate is then called with that same model and with the
\* request's prompt.
C7_PulledModelIsUsed ==
    (/\ ListSucceeded
     /\ Resolved \notin answers[1].names
     /\ Answered(2)
     /\ answers[2].raised = NoExc) =>
        /\ calls[2] = Call("pull", Resolved, "")
        /\ Len(calls) = 3
        /\ calls[3] = Call("generate", Resolved, prompt)

C7_Witness ==
    /\ Finished
    /\ reqModel = "ghost-model"
    /\ prompt = "Hi"
    /\ ListSucceeded
    /\ "ghost-model" \notin answers[1].names
    /\ PullSucceeded
    /\ calls[3] = Call("generate", "ghost-model", "Hi")
    /\ GenSucceeded

----------------------------------------------------------------------------
(* C8 *)

AnyBackendFailure == ListFailed \/ PullFailed \/ GenFailed

\* C8 as claimed: a listing, acquisition or generation failure yields a 200
\* response whose body is {"response": text} with text starting with "Error:".
C8_AsClaimed ==
    (pc = "returned" /\ front \in Routes /\ AnyBackendFailure) =>
        /\ reply.status = 200
        /\ reply.key = "response"
        /\ StartsWith(reply.text, "Error:")

\* C8, amended: POST /generate and POST /ask never answer 500 because of a
\* listing, acquisition or generation failure: the response is 200 with body
\* {"response": text}, where text is what generate_response returned; it starts
\* with "Error:" when the generate call failed, and is the generated text when
\* generate succeeded after a listing or acquisition failure.
C8_BackendFailureIs200 ==
    /\ reply.status # 500
    /\ \A i \in DOMAIN outbox : outbox[i].status = 200 /\ outbox[i].key = "response"
    /\ (pc = "returned" /\ front \in Routes) =>
          /\ reply.status = 200
          /\ reply.key = "response"
          /\ reply.text = outcome.text
          /\ GenFailed => StartsWith(reply.text, "Error:")
          /\ GenSucceeded => reply.text = GenReply.response

C8_Witness ==
    /\ pc = "returned"
    /\ front = "/ask"
    /\ PullFailed
    /\ GenFailed
    /\ reply.status = 200
    /\ reply.key = "response"
    /\ StartsWith(reply.text, "Error:")

----------------------------------------------------------------------------
(* C9 *)

\* C9 as claimed: the HTTP front end serves requests concurrently, so while one
\* request's pull of a missing model is in flight, the handler of a second
\* request for the same model, which the loop has already taken up, can be
\* entered (and reach its own pull before the first pull has finished).
C9_ServedConcurrently ==
    (mode = "server" /\ pc = "pulling" /\ started > 0) =>
        ENABLED Dispatch([route |-> front, model |-> reqModel, prompt |-> prompt])

----------------------------------------------------------------------------
(* C10 *)

\* C10: within one request nothing is retried and the calls are ordered: list
\* is called at most once, pull at most once and only after a list call that
\* succeeded and did not contain the resolved model, generate at most once and
\* only after every earlier call has been answered; a failed pull or a failed
\* generate is not followed by a second call of the same operation.
C10_CallDiscipline ==
    /\ \A op \in {"list", "pull", "generate"} : Cardinality(CallsOf(op)) <= 1
    /\ Len(calls) <= Len(answers) + 1
    /\ pc # "idle" => calls[1].op = "list"
    /\ \A i \in CallsOf("pull") :
          /\ i = 2
          /\ ListSucceeded
          /\ calls[i].model = Resolved
          /\ calls[i].model \notin answers[1].names
    /\ \A i \in CallsOf("generate") :
          /\ i = Len(calls)
          /\ i >= 2
          /\ Answered(i - 1)
    /\ Finished => Len(answers) = Len(calls)

C10_Witness ==
    /\ Finished
    /\ PullFailed
    /\ GenFailed
    /\ Len(calls) = 3
    /\ calls[1].op = "list" /\ calls[2].op = "pull" /\ calls[3].op = "generate"

====
